---- MODULE Spec2Model ----
(***************************************************************************)
(* Project DESA (Daily Evaluation Summarizer App), src/app.py.             *)
(*                                                                         *)
(* One invocation of the script: the uploaded batch is walked file by      *)
(* file (load, categorize, category averages, session averages), then the  *)
(* category and the session comparison tables are built, or the idle       *)
(* prompt is shown.                                                        *)
(*                                                                         *)
(* Text is modelled as text: headers, cells, file names and messages are   *)
(* strings, and str.upper, the `in` substring test, re.search and          *)
(* str.replace are operators that walk the characters.                     *)
(*                                                                         *)
(* Numbers: a cell that pd.to_numeric accepts is a string of decimal       *)
(* digits (the ratings of the evaluation forms are whole numbers), and an  *)
(* average is kept in hundredths (250 is 2.50), which is exact for a value *)
(* rounded to 2 decimals.  An optional value (None / NaN) is a sequence of *)
(* length 0 or 1.                                                          *)
(***************************************************************************)
EXTENDS Integers, Sequences, FiniteSets, TLC

(***************************************************************************)
(* Characters and strings.                                                 *)
(***************************************************************************)

\* The character that stands for U+2013 EN DASH, which a TLA+ string cannot
\* hold.  No header of the model uses "~" for anything else.
EnDash == "~"

\* The characters of the model's texts in code point order (U+2013 is above
\* every ASCII character).
Alphabet == "\t ()-./0123456789:ABCDEFGHIJKLMNOPQRSTUVWXYZ_abcdefghijklmnopqrstuvwxyz~"

LowerCase == "abcdefghijklmnopqrstuvwxyz"

UpperCase == "ABCDEFGHIJKLMNOPQRSTUVWXYZ"

Digits == "0123456789"

Char(s, k) == SubSeq(s, k, k)

Chars(s) == {Char(s, k) : k \in 1..Len(s)}

\* the position of a character of s in s
IndexIn(c, s) == CHOOSE k \in 1..Len(s) : Char(s, k) = c

\* ord(c), up to an order-preserving renumbering
OrdOf == [c \in Chars(Alphabet) |-> IndexIn(c, Alphabet)]

Ord(c) == OrdOf[c]

UpperOf == [c \in Chars(LowerCase) |-> Char(UpperCase, IndexIn(c, LowerCase))]

UpperChar(c) == IF c \in DOMAIN UpperOf THEN UpperOf[c] ELSE c

RECURSIVE str_upper(_)
\* str.upper()
str_upper(s) == IF s = "" THEN "" ELSE UpperChar(Char(s, 1)) \o str_upper(Tail(s))

RECURSIVE remove_spaces(_)
\* str.replace(" ", ""): drops U+0020 and nothing else
remove_spaces(s) ==
  IF s = "" THEN ""
  ELSE IF Char(s, 1) = " " THEN remove_spaces(Tail(s))
       ELSE Char(s, 1) \o remove_spaces(Tail(s))

\* sub in s
Contains(s, sub) ==
  \E k \in 1..(Len(s) - Len(sub) + 1) : SubSeq(s, k, k + Len(sub) - 1) = sub

\* s.startswith(prefix), the regex ^prefix
StartsWith(s, prefix) ==
  Len(s) >= Len(prefix) /\ SubSeq(s, 1, Len(prefix)) = prefix

RECURSIVE StrLess(_, _)
\* a < b on str: lexicographic by code point
StrLess(a, b) ==
  IF b = "" THEN FALSE
  ELSE IF a = "" THEN TRUE
  ELSE IF Char(a, 1) = Char(b, 1) THEN StrLess(Tail(a), Tail(b))
  ELSE Ord(Char(a, 1)) < Ord(Char(b, 1))

\* \d and \s over the model's alphabet
DigitOf == [c \in Chars(Digits) |-> IndexIn(c, Digits) - 1]

IsDigit(c) == c \in DOMAIN DigitOf

IsSpace(c) == c \in {" ", "\t"}

RECURSIVE SkipDigits(_, _)
\* the position after the longest run of \d starting at k
SkipDigits(s, k) ==
  IF k <= Len(s) /\ IsDigit(Char(s, k)) THEN SkipDigits(s, k + 1) ELSE k

RECURSIVE SkipSpaces(_, _)
\* the position after the longest run of \s starting at k
SkipSpaces(s, k) ==
  IF k <= Len(s) /\ IsSpace(Char(s, k)) THEN SkipSpaces(s, k + 1) ELSE k

\* at position k, one optional character of the class
SkipOptional(s, k, class) ==
  IF k <= Len(s) /\ Char(s, k) \in class THEN k + 1 ELSE k

\* a literal at position k under re.IGNORECASE
LiteralAt(s, k, lit) ==
  /\ k + Len(lit) - 1 <= Len(s)
  /\ str_upper(SubSeq(s, k, k + Len(lit) - 1)) = lit

\* DAY\s*\d+\s*[-~]?\s*LM\s*\d+ anchored at k: the position after the match,
\* 0 when there is none.  Every quantified class is disjoint from what
\* follows it, so the greedy match is the only one from k (but for the two
\* \s* around the dash, whose splits all end at the same place).
MatchDayLmAt(s, k) ==
  IF ~LiteralAt(s, k, "DAY") THEN 0
  ELSE LET d1 == SkipSpaces(s, k + 3)
           d2 == SkipDigits(s, d1)
           l1 == SkipSpaces(s, SkipOptional(s, SkipSpaces(s, d2), {"-", EnDash}))
           n1 == SkipSpaces(s, l1 + 2)
           n2 == SkipDigits(s, n1)
       IN  IF d2 > d1 /\ LiteralAt(s, l1, "LM") /\ n2 > n1 THEN n2 ELSE 0

\* Q\d+[_-]?\s*DAY\s*\d+\s*[-~]?\s*LM\s*\d+ anchored at k
MatchQDayLmAt(s, k) ==
  IF ~LiteralAt(s, k, "Q") THEN 0
  ELSE LET q2 == SkipDigits(s, k + 1)
           d0 == SkipSpaces(s, SkipOptional(s, q2, {"_", "-"}))
       IN  IF q2 > k + 1 THEN MatchDayLmAt(s, d0) ELSE 0

\* re.search(...).group(0) as an optional string: the match at the leftmost
\* position that has one
SearchQDayLm(s) ==
  LET starts == {k \in 1..Len(s) : MatchQDayLmAt(s, k) > 0}
  IN  IF starts = {} THEN <<>>
      ELSE LET k == CHOOSE a \in starts : \A b \in starts : a <= b
           IN  <<SubSeq(s, k, MatchQDayLmAt(s, k) - 1)>>

SearchDayLm(s) ==
  LET starts == {k \in 1..Len(s) : MatchDayLmAt(s, k) > 0}
  IN  IF starts = {} THEN <<>>
      ELSE LET k == CHOOSE a \in starts : \A b \in starts : a <= b
           IN  <<SubSeq(s, k, MatchDayLmAt(s, k) - 1)>>

(***************************************************************************)
(* Values.                                                                 *)
(***************************************************************************)

\* None / NaN, and a present value v as <<v>>
Null == <<>>

RECURSIVE SumSeq(_)
SumSeq(q) == IF q = <<>> THEN 0 ELSE Head(q) + SumSeq(Tail(q))

RECURSIVE Flatten(_)
Flatten(qq) == IF qq = <<>> THEN <<>> ELSE Head(qq) \o Flatten(Tail(qq))

RECURSIVE Dedup(_)
\* the elements of q in order of first occurrence (the key order of a dict)
Dedup(q) ==
  IF q = <<>> THEN <<>>
  ELSE LET front == Dedup(SubSeq(q, 1, Len(q) - 1))
           last  == q[Len(q)]
       IN  IF \E k \in 1..Len(front) : front[k] = last THEN front
           ELSE Append(front, last)

Range(q) == {q[k] : k \in 1..Len(q)}

RECURSIVE DecimalValue(_)
DecimalValue(s) ==
  IF s = "" THEN 0
  ELSE 10 * DecimalValue(SubSeq(s, 1, Len(s) - 1)) + DigitOf[Char(s, Len(s))]

\* pd.to_numeric(cell, errors='coerce'): the number, or NaN for a missing
\* cell and for text that is no number
to_numeric(cell) ==
  IF cell # "" /\ \A k \in 1..Len(cell) : IsDigit(Char(cell, k))
  THEN <<DecimalValue(cell)>>
  ELSE Null

\* num/den rounded to the nearest integer, a tie to the even one: round(avg, 2)
\* on the hundredths.  The float avg is the exact mean wherever a tie can
\* arise in the model (a pool of 8 cells: eighths are binary fractions).
RoundHalfEven(num, den) ==
  LET q == num \div den
      r == num % den
  IN  IF 2 * r < den THEN q
      ELSE IF 2 * r > den THEN q + 1
      ELSE IF q % 2 = 0 THEN q ELSE q + 1

(***************************************************************************)
(* Tables.  A loaded table is its headers and, per column, its cells.  A   *)
(* DataFrame of averages is its index (row keys), its column names and     *)
(* values[row][column], each an optional number of hundredths.             *)
(***************************************************************************)

None == [none |-> TRUE]

Frame(index, columns, values) ==
  [none |-> FALSE, index |-> index, columns |-> columns, values |-> values]

Position(q, e) == CHOOSE k \in 1..Len(q) : q[k] = e

\* the cell of a frame at a row key and a column number, NaN where the frame
\* has no such row
CellAt(frame, key, c) ==
  IF key \in Range(frame.index) THEN frame.values[Position(frame.index, key)][c]
  ELSE Null

\* df[cols].apply(pd.to_numeric, errors='coerce').stack(): the numbers of all
\* cells of the columns, NaN dropped
stacked(df, cols) ==
  LET numbers(col) ==
        LET cells == df.cells[Position(df.columns, col)]
        IN  Flatten([k \in 1..Len(cells) |-> to_numeric(cells[k])])
  IN  Flatten([k \in 1..Len(cols) |-> numbers(cols[k])])

\* float(stacked.mean()) if not stacked.empty else nan, then
\* round(avg, 2) if pd.notna(avg) else None
pool_average(pool) ==
  IF pool = <<>> THEN Null
  ELSE <<RoundHalfEven(100 * SumSeq(pool), Len(pool))>>

(***************************************************************************)
(* load_file                                                               *)
(***************************************************************************)

\* the table read from a file that parses, the ^Unnamed columns dropped
load_file(uploaded_file) ==
  LET keep == {k \in 1..Len(uploaded_file.columns) :
                 ~StartsWith(uploaded_file.columns[k], "Unnamed")}
      pick == SelectSeq([k \in 1..Len(uploaded_file.columns) |-> k],
                        LAMBDA k : k \in keep)
  IN  [columns |-> [k \in 1..Len(pick) |-> uploaded_file.columns[pick[k]]],
       cells   |-> [k \in 1..Len(pick) |-> uploaded_file.cells[pick[k]]]]

(***************************************************************************)
(* categorize_columns                                                      *)
(***************************************************************************)

CategoryNames ==
  <<"PROGRAM MANAGEMENT", "TRAINING VENUE", "FOOD/MEALS", "ACCOMMODATION",
    "ADMINISTRATIVE ARRANGEMENTS", "SESSION">>

SessionIndicators ==
  <<"PROGRAM OBJECTIVES", "...", "CONTENT RELEVANCE",
    "RP/SUBJECT MATTER EXPERT KNOWLEDGE">>

\* category_of with the SESSION indicators tested before the five labels
category_of_session_first(col) ==
  LET col_str == str_upper(col)
  IN  IF \E k \in 1..Len(SessionIndicators) :
            Contains(col_str, SessionIndicators[k])
      THEN "SESSION"
      ELSE IF Contains(col_str, "PROGRAM MANAGEMENT") THEN "PROGRAM MANAGEMENT"
      ELSE IF Contains(col_str, "TRAINING VENUE") THEN "TRAINING VENUE"
      ELSE IF Contains(col_str, "FOOD/MEALS") THEN "FOOD/MEALS"
      ELSE IF Contains(col_str, "ACCOMMODATION") THEN "ACCOMMODATION"
      ELSE IF Contains(col_str, "ADMINISTRATIVE ARRANGEMENTS")
           THEN "ADMINISTRATIVE ARRANGEMENTS"
      ELSE ""

\* the if/elif chain on one header: the category it is appended to, "" for none
category_of(col) ==
  LET col_str == str_upper(col)
  IN  IF Contains(col_str, "PROGRAM MANAGEMENT") THEN "PROGRAM MANAGEMENT"
      ELSE IF Contains(col_str, "TRAINING VENUE") THEN "TRAINING VENUE"
      ELSE IF Contains(col_str, "FOOD/MEALS") THEN "FOOD/MEALS"
      ELSE IF Contains(col_str, "ACCOMMODATION") THEN "ACCOMMODATION"
      ELSE IF Contains(col_str, "ADMINISTRATIVE ARRANGEMENTS")
           THEN "ADMINISTRATIVE ARRANGEMENTS"
      ELSE IF \E k \in 1..Len(SessionIndicators) :
                 Contains(col_str, SessionIndicators[k])
           THEN "SESSION"
      ELSE ""

categorize_columns(df) ==
  [cat \in Range(CategoryNames) |->
     SelectSeq(df.columns, LAMBDA col : category_of(col) = cat)]

(***************************************************************************)
(* compute_category_averages                                               *)
(***************************************************************************)

\* the categories the averaging loop walks
AveragedCategories ==
  <<"PROGRAM MANAGEMENT", "TRAINING VENUE", "FOOD/MEALS", "ACCOMMODATION",
    "ADMINISTRATIVE ARANGEMENTS">>

\* categories.get(cat, [])
dict_get(categories, cat) ==
  IF cat \in DOMAIN categories THEN categories[cat] ELSE <<>>

compute_category_averages(df, categories, file_name) ==
  LET cats == SelectSeq(AveragedCategories,
                        LAMBDA cat : dict_get(categories, cat) # <<>>)
  IN  IF cats = <<>> THEN None
      ELSE Frame(cats, <<file_name>>,
                 [r \in 1..Len(cats) |->
                    <<pool_average(stacked(df, dict_get(categories, cats[r])))>>])

(***************************************************************************)
(* compute_session_averages                                                *)
(***************************************************************************)

\* the session key of a header, Null when neither pattern matches
session_key(col) ==
  LET match == SearchQDayLm(col)
      match_day_lm == SearchDayLm(col)
  IN  IF match # <<>> THEN <<remove_spaces(str_upper(match[1]))>>
      ELSE IF match_day_lm # <<>> THEN <<remove_spaces(str_upper(match_day_lm[1]))>>
      ELSE Null

\* session_groups: the keys in order of first appearance, and each key's columns
session_keys(session_cols) ==
  Dedup(Flatten([k \in 1..Len(session_cols) |-> session_key(session_cols[k])]))

session_group(session_cols, key) ==
  SelectSeq(session_cols, LAMBDA col : session_key(col) = <<key>>)

Message(kind, text) == [kind |-> kind, text |-> text]

\* the st.warning of one skipped column
skipped_warning(col, file_name) ==
  Message("warning", "Skipped column (no session match): " \o col)

\* the warnings of the call, in column order
session_warnings(session_cols, file_name) ==
  LET skipped == SelectSeq(session_cols, LAMBDA col : session_key(col) = Null)
  IN  [k \in 1..Len(skipped) |-> skipped_warning(skipped[k], file_name)]

compute_session_averages(df, session_cols, file_name) ==
  LET keys == session_keys(session_cols)
  IN  IF keys = <<>> THEN None
      ELSE Frame(keys, <<file_name>>,
                 [r \in 1..Len(keys) |->
                    <<pool_average(stacked(df, session_group(session_cols, keys[r])))>>])

(***************************************************************************)
(* The comparison tables: pd.concat(..., axis=1).sort_index() and          *)
(* add_overall_summary.                                                    *)
(***************************************************************************)

\* concat_axis1 with join='inner': only the rows every frame has
concat_inner(frames) ==
  LET index == SelectSeq(Dedup(Flatten([k \in 1..Len(frames) |-> frames[k].index])),
                         LAMBDA key : \A k \in 1..Len(frames) : key \in Range(frames[k].index))
      row(key) ==
        Flatten([k \in 1..Len(frames) |->
                   [c \in 1..Len(frames[k].columns) |-> CellAt(frames[k], key, c)]])
  IN  Frame(index,
            Flatten([k \in 1..Len(frames) |-> frames[k].columns]),
            [r \in 1..Len(index) |-> row(index[r])])

\* pd.concat(frames, axis=1): the outer join on the index, the columns of the
\* frames side by side, NaN where a frame has no such row
concat_axis1(frames) ==
  LET index == Dedup(Flatten([k \in 1..Len(frames) |-> frames[k].index]))
      row(key) ==
        Flatten([k \in 1..Len(frames) |->
                   [c \in 1..Len(frames[k].columns) |-> CellAt(frames[k], key, c)]])
  IN  Frame(index,
            Flatten([k \in 1..Len(frames) |-> frames[k].columns]),
            [r \in 1..Len(index) |-> row(index[r])])

RECURSIVE SortStrings(_)
\* the strings of a duplicate-free sequence in ascending order
SortStrings(q) ==
  IF q = <<>> THEN <<>>
  ELSE LET least == CHOOSE a \in Range(q) : \A b \in Range(q) : ~StrLess(b, a)
       IN  <<least>> \o SortStrings(SelectSeq(q, LAMBDA e : e # least))

\* DataFrame.sort_index(): the rows in ascending order of their keys
sort_index(frame) ==
  LET sorted == SortStrings(frame.index)
  IN  Frame(sorted, frame.columns,
            [r \in 1..Len(sorted) |-> frame.values[Position(frame.index, sorted[r])]])

Present(cells) == Flatten(cells)

\* a row whose mean lies halfway between two hundredths: the float mean of the
\* rounded file averages and numpy's round decide which way it goes
IsTie(cells) ==
  Present(cells) # <<>> /\ 2 * (SumSeq(Present(cells)) % Len(Present(cells))) = Len(Present(cells))

\* row_mean with NaN counted as zero (df.fillna(0).mean(axis=1))
row_mean_nan_as_zero(cells, up) ==
  LET q == SumSeq(Present(cells)) \div Len(cells)
      r == SumSeq(Present(cells)) % Len(cells)
  IN  IF 2 * r < Len(cells) THEN <<q>>
      ELSE IF 2 * r > Len(cells) THEN <<q + 1>>
      ELSE IF up THEN <<q + 1>> ELSE <<q>>

\* df.mean(axis=1).round(2) on one row: NaN cells skipped, NaN when all are NaN
row_mean(cells, up) ==
  LET pool == Present(cells)
      q == SumSeq(pool) \div Len(pool)
      r == SumSeq(pool) % Len(pool)
  IN  IF pool = <<>> THEN Null
      ELSE IF 2 * r < Len(pool) THEN <<q>>
      ELSE IF 2 * r > Len(pool) THEN <<q + 1>>
      ELSE IF up THEN <<q + 1>> ELSE <<q>>

\* ups: the rows whose tie rounds up
add_overall_summary(df, ups) ==
  Frame(df.index, Append(df.columns, "Overall Avg"),
        [r \in 1..Len(df.index) |->
           Append(df.values[r], row_mean(df.values[r], r \in ups))])

TieRows(df) == {r \in 1..Len(df.index) : IsTie(df.values[r])}

(***************************************************************************)
(* The uploads.                                                            *)
(***************************************************************************)

\* the longest batch
MaxFiles == 3

UploadedFile(name, raises, columns, cells) ==
  [name |-> name, raises |-> raises, columns |-> columns, cells |-> cells]

\* The files a user can upload: name, whether reading it raises (and with
\* what), its headers and its cells column by column.
Day1 ==
  UploadedFile("day1.csv", "",
    <<"Unnamed: 0", "Participant Name", "Program Management 1",
      "Program Management 2", "Food/Meals",
      "Q1 DAY1-LM2 Content Relevance", "Q2_DAY1 LM2 Program Objectives">>,
    <<<<"0", "1">>, <<"Ann", "Ben">>, <<"1", "2">>,
      <<"3", "4">>, <<"2", "n/a">>,
      <<"4", "5">>, <<"3", "">>>>)

Day2 ==
  UploadedFile("day2.xlsx", "",
    <<"TRAINING VENUE / PROGRAM OBJECTIVES", "Food/Meals",
      "ADMINISTRATIVE ARRANGEMENTS", "Day 1 LM 2 Content Relevance",
      "Program Objectives", "day\t1~lm2 content relevance">>,
    <<<<"4", "5", "n/a">>, <<"", "n/a", "">>,
      <<"3", "4", "5">>, <<"5", "4", "4">>,
      <<"3", "3", "3">>, <<"n/a", "", "">>>>)

Day3 ==
  UploadedFile("day3.csv", "",
    <<"Food/Meals", "Accommodation", "Program Management",
      "Q1 DAY1-LM2 Content Relevance", "Remarks...">>,
    <<<<"4", "4", "4">>, <<"5", "3", "3">>, <<"0", "0", "0">>,
      <<"5", "4", "4">>, <<"ok", "", "fine">>>>)

Admin ==
  UploadedFile("admin.csv", "",
    <<"Participant Name", "Administrative Arrangements">>,
    <<<<"Ann", "Ben">>, <<"5", "4">>>>)

Broken == UploadedFile("broken.xlsx", "File is not a zip file", <<>>, <<>>)

Empty == UploadedFile("empty.csv", "No columns to parse from file", <<>>, <<>>)

Catalogue == {Day1, Day2, Day3, Admin, Broken, Empty}

Batches == UNION {[1..n -> Catalogue] : n \in 0..MaxFiles}

(***************************************************************************)
(* The script.                                                             *)
(***************************************************************************)

VARIABLES
  uploaded_files,     \* the batch of st.file_uploader
  pc,                 \* the statement the script is at
  i,                  \* the position of the for loop in uploaded_files
  df,                 \* the table of the current file
  categories,         \* categorize_columns(df)
  cat_df,             \* the category averages of the current file
  sess_df,            \* the session averages of the current file
  combined_summary,
  combined_sessions,
  final_summary,      \* the category table shown, None when none is
  final_sessions,     \* the session table shown, None when none is
  messages            \* st.error, st.warning and st.info, in order

vars == <<uploaded_files, pc, i, df, categories, cat_df, sess_df,
          combined_summary, combined_sessions, final_summary, final_sessions,
          messages>>

NoTable == [columns |-> <<>>, cells |-> <<>>]

NoCategories == [cat \in Range(CategoryNames) |-> <<>>]

Init ==
  /\ uploaded_files \in Batches
  /\ pc = "start"
  /\ i = 0
  /\ df = NoTable
  /\ categories = NoCategories
  /\ cat_df = None
  /\ sess_df = None
  /\ combined_summary = <<>>
  /\ combined_sessions = <<>>
  /\ final_summary = None
  /\ final_sessions = None
  /\ messages = <<>>

\* where the for loop goes after the file at position k
AfterFile(k) == IF k = Len(uploaded_files) THEN "category" ELSE "load"

\* if uploaded_files is not None and len(uploaded_files) > 0:
Start ==
  /\ pc = "start"
  /\ Len(uploaded_files) > 0
  /\ pc' = "load"
  /\ i' = 1
  /\ UNCHANGED <<uploaded_files, df, categories, cat_df, sess_df,
                 combined_summary, combined_sessions, final_summary,
                 final_sessions, messages>>

\* else: st.info(...)
Idle ==
  /\ pc = "start"
  /\ Len(uploaded_files) = 0
  /\ messages' = Append(messages,
       Message("info", "Upload one or more CSV/XLSX files to generate comparison tables."))
  /\ pc' = "done"
  /\ UNCHANGED <<uploaded_files, i, df, categories, cat_df, sess_df,
                 combined_summary, combined_sessions, final_summary,
                 final_sessions>>

\* df = load_file(uploaded_file)
LoadFile ==
  /\ pc = "load"
  /\ uploaded_files[i].raises = ""
  /\ df' = load_file(uploaded_files[i])
  /\ pc' = "categorize"
  /\ UNCHANGED <<uploaded_files, i, categories, cat_df, sess_df,
                 combined_summary, combined_sessions, final_summary,
                 final_sessions, messages>>

\* LoadFails without the continue: the error is shown and the loop is left
LoadFails_aborts ==
  /\ pc = "load"
  /\ uploaded_files[i].raises # ""
  /\ messages' = Append(messages,
       Message("error", "Could not read " \o uploaded_files[i].name \o ": "
                          \o uploaded_files[i].raises))
  /\ i' = i + 1
  /\ pc' = "category"
  /\ UNCHANGED <<uploaded_files, df, categories, cat_df, sess_df,
                 combined_summary, combined_sessions, final_summary,
                 final_sessions>>

\* except Exception as e: st.error(...); continue
LoadFails ==
  /\ pc = "load"
  /\ uploaded_files[i].raises # ""
  /\ messages' = Append(messages,
       Message("error", "Could not read " \o uploaded_files[i].name \o ": "
                          \o uploaded_files[i].raises))
  /\ i' = i + 1
  /\ pc' = AfterFile(i)
  /\ UNCHANGED <<uploaded_files, df, categories, cat_df, sess_df,
                 combined_summary, combined_sessions, final_summary,
                 final_sessions>>

\* categories = categorize_columns(df)
Categorize ==
  /\ pc = "categorize"
  /\ categories' = categorize_columns(df)
  /\ pc' = "category_averages"
  /\ UNCHANGED <<uploaded_files, i, df, cat_df, sess_df, combined_summary,
                 combined_sessions, final_summary, final_sessions, messages>>

\* cat_df = compute_category_averages(...); append unless None
CategoryAverages ==
  /\ pc = "category_averages"
  /\ cat_df' = compute_category_averages(df, categories, uploaded_files[i].name)
  /\ combined_summary' = IF cat_df'.none THEN combined_summary
                         ELSE Append(combined_summary, cat_df')
  /\ pc' = "session_averages"
  /\ UNCHANGED <<uploaded_files, i, df, categories, sess_df, combined_sessions,
                 final_summary, final_sessions, messages>>

\* sess_df = compute_session_averages(...); append unless None; next file
SessionAverages ==
  /\ pc = "session_averages"
  /\ sess_df' = compute_session_averages(df, dict_get(categories, "SESSION"),
                                         uploaded_files[i].name)
  /\ messages' = messages \o session_warnings(dict_get(categories, "SESSION"),
                                              uploaded_files[i].name)
  /\ combined_sessions' = IF sess_df'.none THEN combined_sessions
                          ELSE Append(combined_sessions, sess_df')
  /\ i' = i + 1
  /\ pc' = AfterFile(i)
  /\ UNCHANGED <<uploaded_files, df, categories, cat_df, combined_summary,
                 final_summary, final_sessions>>

\* if combined_summary: concat, sort, add the overall column, show
CategoryComparison ==
  /\ pc = "category"
  /\ IF combined_summary # <<>>
     THEN \E ups \in SUBSET TieRows(sort_index(concat_axis1(combined_summary))) :
            final_summary' =
              add_overall_summary(sort_index(concat_axis1(combined_summary)), ups)
     ELSE UNCHANGED final_summary
  /\ pc' = "session"
  /\ UNCHANGED <<uploaded_files, i, df, categories, cat_df, sess_df,
                 combined_summary, combined_sessions, final_sessions, messages>>

\* if combined_sessions: concat, sort, add the overall column, show
SessionComparison ==
  /\ pc = "session"
  /\ IF combined_sessions # <<>>
     THEN \E ups \in SUBSET TieRows(sort_index(concat_axis1(combined_sessions))) :
            final_sessions' =
              add_overall_summary(sort_index(concat_axis1(combined_sessions)), ups)
     ELSE UNCHANGED final_sessions
  /\ pc' = "done"
  /\ UNCHANGED <<uploaded_files, i, df, categories, cat_df, sess_df,
                 combined_summary, combined_sessions, final_summary, messages>>

Next ==
  \/ Start
  \/ Idle
  \/ LoadFile
  \/ LoadFails
  \/ Categorize
  \/ CategoryAverages
  \/ SessionAverages
  \/ CategoryComparison
  \/ SessionComparison

Spec == Init /\ [][Next]_vars

(***************************************************************************)
(* categorize_columns and compute_session_averages on their own: every     *)
(* list of up to MaxCols distinct headers of HeaderPool as the columns of  *)
(* a table, all of them handed to compute_session_averages as              *)
(* session_cols.                                                           *)
(***************************************************************************)

\* the most columns of a table
MaxCols == 2

HeaderPool ==
  {"Q1 DAY1-LM2 Relevance", "Q2_DAY1 LM2 Clarity",
   "Day 1 LM 2 Content Relevance", "DAY\t1 LM2 content relevance",
   "day1lm2 Program Objectives",
   "Q3-day 2 ~ lm 10 rp/subject matter expert knowledge",
   "Program Management", "program objectives of the TRAINING VENUE",
   "Food/Meals and Accommodation", "Administrative Arrangements",
   "Participant Name", "Remarks..."}

UnitCells == <<<<"1", "2">>, <<"3", "4">>, <<"5", "">>, <<"n/a", "2">>>>

UnitTables ==
  {[columns |-> cols,
    cells   |-> [k \in 1..Len(cols) |-> UnitCells[((k - 1) % Len(UnitCells)) + 1]]] :
     cols \in {q \in UNION {[1..n -> HeaderPool] : n \in 0..MaxCols} :
                 \A a, b \in 1..Len(q) : a # b => q[a] # q[b]}}

UnitInit ==
  /\ uploaded_files = <<>>
  /\ pc = "unit"
  /\ i = 0
  /\ df \in UnitTables
  /\ categories = NoCategories
  /\ cat_df = None
  /\ sess_df = None
  /\ combined_summary = <<>>
  /\ combined_sessions = <<>>
  /\ final_summary = None
  /\ final_sessions = None
  /\ messages = <<>>

UnitCategorize ==
  /\ pc = "unit"
  /\ categories' = categorize_columns(df)
  /\ pc' = "unit_sessions"
  /\ UNCHANGED <<uploaded_files, i, df, cat_df, sess_df, combined_summary,
                 combined_sessions, final_summary, final_sessions, messages>>

UnitSessions ==
  /\ pc = "unit_sessions"
  /\ sess_df' = compute_session_averages(df, df.columns, "unit.csv")
  /\ messages' = messages \o session_warnings(df.columns, "unit.csv")
  /\ pc' = "unit_done"
  /\ UNCHANGED <<uploaded_files, i, df, categories, cat_df, combined_summary,
                 combined_sessions, final_summary, final_sessions>>

UnitNext == UnitCategorize \/ UnitSessions

UnitSpec == UnitInit /\ [][UnitNext]_vars

(***************************************************************************)
(* What the claims are stated over.                                        *)
(***************************************************************************)

Abs(n) == IF n < 0 THEN -n ELSE n

\* the files of the batch that load, in batch order
Loaded == SelectSeq(uploaded_files, LAMBDA f : f.raises = "")

Failed == SelectSeq(uploaded_files, LAMBDA f : f.raises # "")

\* the Average Records of each file uploaded alone
AloneCategoriesOf ==
  [f \in Catalogue |->
     compute_category_averages(load_file(f), categorize_columns(load_file(f)), f.name)]

AloneSessionsOf ==
  [f \in Catalogue |->
     compute_session_averages(load_file(f), categorize_columns(load_file(f))["SESSION"],
                              f.name)]

AloneCategories(f) == AloneCategoriesOf[f]

AloneSessions(f) == AloneSessionsOf[f]

\* the frames of the files that have one, in batch order
Records(alone(_)) ==
  LET frames == [k \in 1..Len(Loaded) |-> alone(Loaded[k])]
  IN  SelectSeq(frames, LAMBDA frame : ~frame.none)

\* v is the mean of the pool to 2 decimals (in hundredths), null for an empty pool
IsMeanOf(v, pool) ==
  IF pool = <<>> THEN v = Null
  ELSE /\ v # Null
       /\ 2 * Abs(v[1] * Len(pool) - 100 * SumSeq(pool)) <= Len(pool)

\* cat_df belongs to categories / sess_df belongs to categories
CategoryStepDone == pc \notin {"categorize", "category_averages"}

SessionStepDone == pc \notin {"categorize", "category_averages", "session_averages"}

LoopDone == pc \in {"category", "session", "done"} /\ Len(uploaded_files) > 0

ErrorMessages == SelectSeq(messages, LAMBDA m : m.kind = "error")

WarningMessages == SelectSeq(messages, LAMBDA m : m.kind = "warning")

\* the SESSION columns of a file that get no session key
SkippedColumns(f) ==
  SelectSeq(categorize_columns(load_file(f))["SESSION"],
            LAMBDA col : session_key(col) = Null)

(***************************************************************************)
(* The claims.                                                             *)
(***************************************************************************)

\* C1: for each of the five non-SESSION categories, the category averages of
\* a file have a row for the category if and only if categorize_columns
\* assigned it at least one column (so a file with an ADMINISTRATIVE
\* ARRANGEMENTS column gets an ADMINISTRATIVE ARRANGEMENTS row).
C1_RowIffAssigned ==
  CategoryStepDone =>
    \A c \in 1..5 :
      (~cat_df.none /\ CategoryNames[c] \in Range(cat_df.index))
        <=> (categories[CategoryNames[c]] # <<>>)

\* C2: with the session columns "Q1 DAY1-LM2 Relevance" and
\* "Q2_DAY1 LM2 Clarity", compute_session_averages returns one row: both
\* headers get the same key and their cells are pooled into one average.
C2_SameSessionGroup ==
  (pc = "unit_done"
     /\ Range(df.columns) = {"Q1 DAY1-LM2 Relevance", "Q2_DAY1 LM2 Clarity"})
    => /\ ~sess_df.none
       /\ Len(sess_df.index) = 1
       /\ sess_df.values[1][1] = pool_average(stacked(df, df.columns))

\* C3: the loop is left only past the last file of the batch; by then there
\* is one error message per file whose load raised, in batch order and
\* carrying that file's name, and combined_summary / combined_sessions hold
\* exactly the records the files that load produce when uploaded alone.
C3_FileIsolation ==
  /\ pc \in {"load", "categorize", "category_averages", "session_averages"}
       => i \in 1..Len(uploaded_files)
  /\ LoopDone =>
       /\ i = Len(uploaded_files) + 1
       /\ Len(ErrorMessages) = Len(Failed)
       /\ \A k \in 1..Len(Failed) : Contains(ErrorMessages[k].text, Failed[k].name)
       /\ combined_summary = Records(AloneCategories)
       /\ combined_sessions = Records(AloneSessions)

\* C3 witness: a batch of three with one unreadable file in the middle has
\* been processed to the end, and both other files contributed.
C3_Witness ==
  /\ pc = "done"
  /\ Len(uploaded_files) = 3
  /\ uploaded_files[2].raises # ""
  /\ Len(ErrorMessages) = 1
  /\ Len(combined_summary) = 2
  /\ Len(combined_sessions) = 2

\* C4: a header assigned to no category produces no warning, and every
\* SESSION column whose header matches neither pattern produces exactly one
\* warning, which names both the file and the column.
C4_SkippedWarnings ==
  pc = "done" =>
    /\ Len(WarningMessages)
         = SumSeq([k \in 1..Len(Loaded) |-> Len(SkippedColumns(Loaded[k]))])
    /\ \A k \in 1..Len(Loaded) :
         \A col \in Range(SkippedColumns(Loaded[k])) :
           \E w \in Range(WarningMessages) :
             Contains(w.text, col) /\ Contains(w.text, Loaded[k].name)

\* C5: at the end of the invocation, when no Summary Table is rendered the
\* idle-state prompt is shown, and a table of a kind is rendered only if some
\* file produced an Average Record of that kind.
C5_IdlePrompt ==
  pc = "done" =>
    /\ (final_summary.none /\ final_sessions.none)
         => \E m \in Range(messages) : m.kind = "info"
    /\ ~final_summary.none => Records(AloneCategories) # <<>>
    /\ ~final_sessions.none => Records(AloneSessions) # <<>>

\* the categories whose keyword the uppercased header contains, by rank in
\* the order PROGRAM MANAGEMENT, ..., ADMINISTRATIVE ARRANGEMENTS, SESSION
MatchingRanks(header) ==
  LET upper == str_upper(header)
  IN  {c \in 1..6 :
         IF c < 6 THEN Contains(upper, CategoryNames[c])
         ELSE \E ind \in Range(SessionIndicators) : Contains(upper, ind)}

Occurrences(q, e) == Cardinality({k \in 1..Len(q) : q[k] = e})

\* C6: every header is in the list of the first category, in the fixed
\* order, whose keyword its uppercased text contains, once, and in no other
\* list (in none when no keyword matches); each list keeps the column order.
C6_FirstMatchWins ==
  pc \in {"unit_sessions", "unit_done"} =>
    /\ \A header \in Range(df.columns) :
         LET ranks == MatchingRanks(header)
         IN  \A c \in 1..6 :
               Occurrences(categories[CategoryNames[c]], header)
                 = IF c \in ranks /\ \A b \in ranks : c <= b THEN 1 ELSE 0
    /\ \A c \in 1..6 :
         LET list == categories[CategoryNames[c]]
         IN  /\ Range(list) \subseteq Range(df.columns)
             /\ \A a, b \in 1..Len(list) :
                  a < b => Position(df.columns, list[a]) < Position(df.columns, list[b])

\* C6 witness: the header with both TRAINING VENUE and PROGRAM OBJECTIVES
\* went to TRAINING VENUE only, next to a header that went to SESSION.
C6_Witness ==
  /\ pc = "unit_done"
  /\ categories["TRAINING VENUE"] = <<"program objectives of the TRAINING VENUE">>
  /\ Len(categories["SESSION"]) = 1

\* the table has the rows of the union of the records, a column per record,
\* and in each column the record's own cell, null where the record lacks the row
IsOuterJoin(final, records) ==
  /\ Range(final.index) = UNION {Range(records[k].index) : k \in 1..Len(records)}
  /\ Len(final.index) = Cardinality(Range(final.index))
  /\ Len(final.columns) = Len(records) + 1
  /\ \A k \in 1..Len(records) : \A r \in 1..Len(final.index) :
       /\ final.columns[k] = records[k].columns[1]
       /\ final.values[r][k] =
            IF final.index[r] \in Range(records[k].index)
            THEN records[k].values[Position(records[k].index, final.index[r])][1]
            ELSE Null

\* C7: the row keys of each Summary Table are the union of the row keys of
\* the records the loaded files produce alone, and the cell of a file that
\* lacks a row key is null.
C7_RowKeyUnion ==
  /\ ~final_summary.none => IsOuterJoin(final_summary, Records(AloneCategories))
  /\ ~final_sessions.none => IsOuterJoin(final_sessions, Records(AloneSessions))

\* C7 witness: a category table of two files where each file lacks a row the
\* other has.
C7_Witness ==
  /\ ~final_summary.none
  /\ Len(final_summary.columns) = 3
  /\ \E r \in 1..Len(final_summary.index) :
       final_summary.values[r][1] = Null /\ final_summary.values[r][2] # Null
          /\ final_summary.index[r] \notin Range(combined_summary[1].index)
  /\ \E r \in 1..Len(final_summary.index) :
       final_summary.values[r][2] = Null /\ final_summary.values[r][1] # Null
          /\ final_summary.index[r] \notin Range(combined_summary[2].index)

\* C8: every session key has no whitespace character and no lowercase
\* letter, and headers whose matches differ only in case or whitespace get
\* the same key.
C8_KeyNormalized ==
  pc = "unit_done" =>
    /\ ~sess_df.none =>
         \A key \in Range(sess_df.index) : \A k \in 1..Len(key) :
           ~IsSpace(Char(key, k)) /\ Char(key, k) \notin Chars(LowerCase)
    /\ Range(df.columns) \subseteq
            {"Day 1 LM 2 Content Relevance", "DAY\t1 LM2 content relevance",
             "day1lm2 Program Objectives"}
         => (df.columns # <<>> => ~sess_df.none /\ Len(sess_df.index) = 1)

\* C9: every non-SESSION category and every session group with at least one
\* column has a per-file average, the mean of the numeric cells of its
\* columns to 2 decimals ({1, 2, 3, 4} gives 2.50), null when none is numeric.
C9_PoolMean ==
  /\ CategoryStepDone =>
       \A c \in 1..5 :
         LET cols == categories[CategoryNames[c]]
         IN  cols # <<>> =>
               /\ ~cat_df.none
               /\ CategoryNames[c] \in Range(cat_df.index)
               /\ IsMeanOf(CellAt(cat_df, CategoryNames[c], 1), stacked(df, cols))
               /\ stacked(df, cols) = <<1, 2, 3, 4>>
                    => CellAt(cat_df, CategoryNames[c], 1) = <<250>>
  /\ (SessionStepDone /\ ~sess_df.none) =>
       \A r \in 1..Len(sess_df.index) :
         IsMeanOf(sess_df.values[r][1],
                  stacked(df, session_group(categories["SESSION"], sess_df.index[r])))

\* the Overall Avg column of a table built from the records
HasOverallAvg(final, records) ==
  LET n == Len(final.columns)
      before == sort_index(concat_axis1(records))
  IN  /\ final.columns[n] = "Overall Avg"
      /\ \A r \in 1..Len(final.index) :
           LET cells == SubSeq(final.values[r], 1, n - 1)
               overall == final.values[r][n]
           IN  /\ cells = before.values[r]
               /\ IF Flatten(cells) = <<>> THEN overall = Null
                  ELSE /\ overall # Null
                       /\ 2 * Abs(overall[1] * Len(Flatten(cells)) - SumSeq(Flatten(cells)))
                            <= Len(Flatten(cells))
               /\ cells = <<<<400>>, Null, <<200>>>> => overall = <<300>>

====
